---- MODULE Spec2Model ----
(***************************************************************************)
(* Model of the marauder visualizer core: the hex-grid direction algebra   *)
(* (src/core/dir.rs), the tile-to-world mapping (src/win.rs), the colour   *)
(* coded picker (src/visualizer/picker.rs) and the event visualizers       *)
(* (src/event_visualizer.rs).                                              *)
(*                                                                         *)
(* Three specifications share the variables:                               *)
(*   SpecDir  - the pure direction / geometry functions applied to inputs  *)
(*              drawn from a bounded square of the grid;                   *)
(*   SpecPick - one pick: encode a colour, render the pixel, decode it;    *)
(*   Spec     - the event pipeline driving the three event visualizers     *)
(*              against the scene and the game state.                      *)
(***************************************************************************)
EXTENDS Integers, Sequences, FiniteSets, TLC

VARIABLES
    \* ---- SpecDir
    gpos,      \* MapPos the direction functions are applied to
    gdir,      \* Dir handed to get_neighbour_pos
    gstage,    \* "input" | "stepped"
    gnbs,      \* the 6 neighbours of gpos, by direction index
    gback,     \* result of get_dir_from_to(gpos, neighbour), or NoResult
    gworld,    \* world positions of gpos and of the neighbour, or NoResult
    gto,       \* any MapPos near gpos, handed to get_dir_from_to as `to`
    gany,      \* result of get_dir_from_to(gpos, gto), or NoResult
    gret,      \* the neighbour's neighbour in the opposite direction, or NoResult
    \* ---- SpecPick
    pobj,      \* what lies under the mouse: a tile, a unit node or nothing
    pcolor,    \* the Color3 the mesh gives that object, or NoResult
    ppick,     \* the PickResult of pick_tile, or NoResult
    \* ---- Spec
    queue,     \* pending events, head is the active one
    scene,     \* Scene: unit id -> SceneNode position
    units,     \* GameState.units
    failed,    \* "" while the task runs, else the failure that aborted it
    nextSeq,   \* number of events enqueued so far
    last,      \* the last visualizer call the pipeline made
    finished,  \* events on which is_finished() has returned true
    ended,     \* events whose end() has been invoked
    advanced,  \* events whose draw() was invoked in the latest frame
    drawCalls  \* draw() calls made on the active event so far

dirVars == <<gpos, gdir, gstage, gnbs, gback, gworld, gto, gany, gret>>
pickVars == <<pobj, pcolor, ppick>>
pipeVars == <<queue, scene, units, failed, nextSeq, last, finished, ended,
              advanced, drawCalls>>
vars == <<gpos, gdir, gstage, gnbs, gback, gworld, gto, gany, gret, pobj, pcolor, ppick,
          queue, scene, units, failed, nextSeq, last, finished, ended,
          advanced, drawCalls>>

NoResult == [ok |-> FALSE, err |-> "not called"]

\* --------------------------------------------------------------------------
\* Bounds of the model
\* --------------------------------------------------------------------------
GridRadius == 2       \* SpecDir applies the functions on -GridRadius..GridRadius squared
MaxQueue == 2         \* events waiting in the pipeline at once
MaxEvents == 3        \* events enqueued in one run
MaxPathLen == 3       \* waypoints of a Move path

\* --------------------------------------------------------------------------
\* Machine arithmetic
\* --------------------------------------------------------------------------
\* Rust's % on signed integers truncates toward zero: (-1) % 2 == -1.
RustRem(a, b) == IF a >= 0 THEN a % b ELSE -((-a) % b)

\* `n as uint` followed by a bounds-checked index into an array of length len:
\* a negative n wraps to a value above every array length, so the index is in
\* bounds exactly when 0 <= n < len.
IndexInBounds(n, len) == n >= 0 /\ n < len

Vec2(x, y) == [x |-> x, y |-> y]
AddV(a, b) == [x |-> a.x + b.x, y |-> a.y + b.y]
SubV(a, b) == [x |-> a.x - b.x, y |-> a.y - b.y]

\* --------------------------------------------------------------------------
\* src/core/dir.rs
\* --------------------------------------------------------------------------
Dirs == <<"NorthEast", "East", "SouthEast", "SouthWest", "West", "NorthWest">>
DirSet == {Dirs[i] : i \in 1..6}

\* The odd-row table with its last entry mistyped as the first one.
DupTable ==
    << << Vec2(1, -1), Vec2(1, 0), Vec2(1, 1), Vec2(0, 1), Vec2(-1, 0), Vec2(0, -1) >>,
       << Vec2(0, -1), Vec2(1, 0), Vec2(0, 1), Vec2(-1, 1), Vec2(-1, 0), Vec2(0, -1) >> >>

\* DIR_TO_POS_DIFF[subtable][direction], both 0-based in the source.
DIR_TO_POS_DIFF ==
    << << Vec2(1, -1), Vec2(1, 0), Vec2(1, 1), Vec2(0, 1), Vec2(-1, 0), Vec2(0, -1) >>,
       << Vec2(0, -1), Vec2(1, 0), Vec2(0, 1), Vec2(-1, 1), Vec2(-1, 0), Vec2(-1, -1) >> >>

PosDiff(sub, i) == DIR_TO_POS_DIFF[sub + 1][i + 1]

from_int(n) == Dirs[n + 1]

to_int(d) == CHOOSE i \in 0..5 : Dirs[i + 1] = d

\* The loop of get_dir_from_to: the first i in 0..5 whose table entry equals
\* diff (the row index is bounds-checked on every iteration).
DirLoop(from, to) ==
    LET diff == SubV(to, from)
        row  == RustRem(from.y, 2)
        hits == {i \in 0..5 : diff = PosDiff(row, i)}
    IN  IF ~IndexInBounds(row, 2)
          THEN [ok |-> FALSE, err |-> "index out of bounds"]
        ELSE IF hits = {}
          THEN [ok |-> FALSE, err |-> "impossible positions"]
        ELSE [ok |-> TRUE,
              dir |-> from_int(CHOOSE i \in hits : \A j \in hits : i <= j)]

\* The loop with the row parity ignored: always the even-row table.
DirLoopEvenTable(from, to) ==
    LET diff == SubV(to, from)
        hits == {i \in 0..5 : diff = PosDiff(0, i)}
    IN  IF hits = {}
          THEN [ok |-> FALSE, err |-> "impossible positions"]
          ELSE [ok |-> TRUE,
                dir |-> from_int(CHOOSE i \in hits : \A j \in hits : i <= j)]

get_dir_from_to(from, to) == DirLoop(from, to)

get_neighbour_pos(pos, dir) ==
    LET is_odd_row      == RustRem(pos.y, 2) = 1
        subtable_index  == IF is_odd_row THEN 1 ELSE 0
        direction_index == to_int(dir)
        difference      == PosDiff(subtable_index, direction_index)
    IN  AddV(pos, difference)

\* --------------------------------------------------------------------------
\* src/event_visualizer.rs: MOVE_SPEED;  src/win.rs: hex geometry
\* --------------------------------------------------------------------------
MOVE_SPEED == 40

\* World coordinates are kept exact: x is counted in 1/MOVE_SPEED of the hex
\* inradius and y in 1/(2*MOVE_SPEED) of the circumradius, so that both the
\* factor 1.5 of v2i_to_v2f and the division by MOVE_SPEED of
\* current_position are exact integer operations.
hex_in_radius == MOVE_SPEED
hex_ex_radius == 2 * MOVE_SPEED

v2i_to_v2f(i) ==
    LET v == [x |-> i.x * hex_in_radius * 2, y |-> (i.y * hex_ex_radius * 3) \div 2]
    IN  IF RustRem(i.y, 2) = 0 THEN [x |-> v.x + hex_in_radius, y |-> v.y] ELSE v

\* pos3d = v2i_to_v2f(tile_pos).extend(0.0)
map_pos_to_world_pos(p) ==
    LET v == v2i_to_v2f(p) IN [x |-> v.x, y |-> v.y, z |-> 0]

\* --------------------------------------------------------------------------
\* src/visualizer/picker.rs
\* --------------------------------------------------------------------------
ByteMax == 255
last_unit_node_id == 1000

\* A colour channel is the exact fraction num/den.
Frac(n, d) == [num |-> n, den |-> d]

IToFBy256(n) == Frac(n, ByteMax + 1)

\* n as MFloat / 255.0
i_to_f(n) == Frac(n, ByteMax)

\* What may lie under the mouse.
Background == [kind |-> "nothing", x |-> 0, y |-> 0, id |-> 0]
Tile(x, y) == [kind |-> "tile", x |-> x, y |-> y, id |-> 0]
UnitNode(id) == [kind |-> "unit", x |-> 0, y |-> 0, id |-> id]

\* set_clear_color(0.0, 0.0, 0.0)
ClearColor == [r |-> Frac(0, 1), g |-> Frac(0, 1), b |-> Frac(0, 1)]

\* get_mesh: the colour of every vertex of the hexagon of tile_pos.
TileColor(tile_pos) ==
    LET col_x == i_to_f(tile_pos.x)
        col_y == i_to_f(tile_pos.y)
    IN  [r |-> col_x, g |-> col_y, b |-> i_to_f(1)]

\* update_units: the colour of the hexagon of a scene node; a node whose id
\* is last_unit_node_id or more is skipped and leaves the cleared colour.
UnitColor(id) ==
    IF id >= last_unit_node_id
      THEN ClearColor
      ELSE [r |-> i_to_f(id), g |-> Frac(0, 1), b |-> i_to_f(2)]

\* A float channel stored in and read back from an RGBA8 buffer
\* (gl::ReadPixels, gl::UNSIGNED_BYTE): clamped to [0, 1], scaled by 255 and
\* rounded to the nearest byte.
ToByte(c) ==
    IF c.num <= 0 THEN 0
    ELSE IF c.num >= c.den THEN ByteMax
    ELSE (2 * ByteMax * c.num + c.den) \div (2 * c.den)

read_pixel_bytes(color) ==
    [r |-> ToByte(color.r), g |-> ToByte(color.g), b |-> ToByte(color.b)]

\* The match of pick_tile on the bytes read.
Decode(px) ==
    CASE px.b = 0 -> [ok |-> TRUE, kind |-> "PickedNothing", x |-> 0, y |-> 0, id |-> 0]
      [] px.b = 1 -> [ok |-> TRUE, kind |-> "PickedMapPos", x |-> px.r, y |-> px.g, id |-> 0]
      [] px.b = 2 -> [ok |-> TRUE, kind |-> "PickedUnitId", x |-> 0, y |-> 0, id |-> px.r]
      [] OTHER    -> [ok |-> FALSE, err |-> "fail!()"]

pick_tile(color) == Decode(read_pixel_bytes(color))

\* --------------------------------------------------------------------------
\* src/event_visualizer.rs
\* --------------------------------------------------------------------------
Vec3Sub(a, b) == [x |-> a.x - b.x, y |-> a.y - b.y, z |-> a.z - b.z]
Vec3Add(a, b) == [x |-> a.x + b.x, y |-> a.y + b.y, z |-> a.z + b.z]
Vec3DivS(a, k) == [x |-> a.x \div k, y |-> a.y \div k, z |-> a.z \div k]
Vec3MulS(a, k) == [x |-> a.x * k, y |-> a.y * k, z |-> a.z * k]

NoPos == Vec2(0, 0)

\* The three visualizers, as one record shape.
EventMoveVisualizer(unit_id, path) ==
    [kind |-> "Move", id |-> unit_id, path |-> path, pos |-> NoPos,
     current_move_index |-> 0]
EventEndTurnVisualizer ==
    [kind |-> "EndTurn", id |-> 0, path |-> <<>>, pos |-> NoPos,
     current_move_index |-> 0]
EventCreateUnitVisualizer(id, pos) ==
    [kind |-> "CreateUnit", id |-> id, path |-> <<>>, pos |-> pos,
     current_move_index |-> 0]

Fail(why) == [ok |-> FALSE, err |-> why]
Ok(v) == [ok |-> TRUE, val |-> v]

\* path[i], 0-based and bounds-checked
PathAt(path, i) ==
    IF i >= 0 /\ i < Len(path) THEN Ok(path[i + 1]) ELSE Fail("index out of bounds")

FramesCountPerWaypoint(ev) == Len(ev.path) * MOVE_SPEED

frames_count(ev) ==
    LET len == Len(ev.path) - 1 IN len * MOVE_SPEED

current_tile_index(ev) == 0

node_index(ev) == ev.current_move_index

current_tile(ev) == PathAt(ev.path, current_tile_index(ev))

next_tile(ev) == PathAt(ev.path, current_tile_index(ev) + 1)

current_position(ev) ==
    LET ct == current_tile(ev)
        nt == next_tile(ev)
    IN  IF ~ct.ok THEN ct
        ELSE IF ~nt.ok THEN nt
        ELSE LET from == map_pos_to_world_pos(ct.val)
                 to   == map_pos_to_world_pos(nt.val)
                 diff == Vec3DivS(Vec3Sub(to, from), MOVE_SPEED)
             IN  Ok(Vec3Add(from, Vec3MulS(diff, node_index(ev))))

\* Scene as a map from unit id to node position
SceneHas(sc, id) == id \in DOMAIN sc
SceneInsert(sc, id, wp) ==
    [i \in (DOMAIN sc) \cup {id} |-> IF i = id THEN wp ELSE sc[i]]

\* game_state.units.iter().find(|u| u.id == id): index of the first match, 0 if none
FindUnit(us, id) ==
    LET hits == {i \in 1..Len(us) : us[i].id = id}
    IN  IF hits = {} THEN 0 ELSE CHOOSE i \in hits : \A j \in hits : i <= j

Unit(id, pos) == [id |-> id, pos |-> pos]

\* --- EventMoveVisualizer
MoveIsFinished(ev) ==
    IF ~(ev.current_move_index <= frames_count(ev))
      THEN Fail("assertion failed: current_move_index <= frames_count()")
      ELSE Ok(ev.current_move_index = frames_count(ev))

MoveDraw(sc, ev) ==
    IF ~SceneHas(sc, ev.id)
      THEN [ok |-> FALSE, err |-> "scene.get_mut: no such node", scene |-> sc, ev |-> ev]
    ELSE LET cp == current_position(ev)
         IN  IF ~cp.ok
               THEN [ok |-> FALSE, err |-> cp.err, scene |-> sc, ev |-> ev]
               ELSE [ok |-> TRUE, err |-> "",
                     scene |-> SceneInsert(sc, ev.id, cp.val),
                     ev |-> [ev EXCEPT !.current_move_index = @ + 1]]

MoveEnd(sc, us, ev) ==
    IF ~SceneHas(sc, ev.id)
      THEN [ok |-> FALSE, err |-> "scene.get_mut: no such node", scene |-> sc, units |-> us]
    ELSE LET cp == current_position(ev)
         IN  IF ~cp.ok
               THEN [ok |-> FALSE, err |-> cp.err, scene |-> sc, units |-> us]
             ELSE LET sc2 == SceneInsert(sc, ev.id, cp.val)
                      u   == FindUnit(us, ev.id)
                  IN  IF u = 0
                        THEN [ok |-> FALSE, err |-> "unwrap on None: no such unit",
                              scene |-> sc2, units |-> us]
                        ELSE [ok |-> TRUE, err |-> "", scene |-> sc2,
                              units |-> [us EXCEPT ![u].pos = ev.path[Len(ev.path)]]]

\* --- EventCreateUnitVisualizer
CreateUnitEndNoAssert(sc, us, ev) ==
    [ok |-> TRUE, err |-> "",
     scene |-> SceneInsert(sc, ev.id, map_pos_to_world_pos(ev.pos)),
     units |-> Append(us, Unit(ev.id, ev.pos))]

CreateUnitEndNoPush(sc, us, ev) ==
    LET sc2 == SceneInsert(sc, ev.id, map_pos_to_world_pos(ev.pos))
    IN  IF FindUnit(us, ev.id) # 0
          THEN [ok |-> FALSE, err |-> "DuplicateUnitId", scene |-> sc2, units |-> us]
          ELSE [ok |-> TRUE, err |-> "", scene |-> sc2, units |-> us]

CreateUnitEnd(sc, us, ev) ==
    LET world_pos == map_pos_to_world_pos(ev.pos)
        sc2       == SceneInsert(sc, ev.id, world_pos)
    IN  IF FindUnit(us, ev.id) # 0
          THEN [ok |-> FALSE, err |-> "DuplicateUnitId", scene |-> sc2, units |-> us]
          ELSE [ok |-> TRUE, err |-> "", scene |-> sc2,
                units |-> Append(us, Unit(ev.id, ev.pos))]

\* --- trait EventVisualizer, dispatched on the visualizer's type
is_finished(ev) ==
    IF ev.kind = "Move" THEN MoveIsFinished(ev) ELSE Ok(TRUE)

draw(sc, ev) ==
    IF ev.kind = "Move" THEN MoveDraw(sc, ev)
    ELSE [ok |-> TRUE, err |-> "", scene |-> sc, ev |-> ev]

end(sc, us, ev) ==
    CASE ev.kind = "Move"       -> MoveEnd(sc, us, ev)
      [] ev.kind = "CreateUnit" -> CreateUnitEnd(sc, us, ev)
      [] ev.kind = "EndTurn"    -> [ok |-> TRUE, err |-> "", scene |-> sc, units |-> us]

\* --------------------------------------------------------------------------
\* SpecDir: the direction functions applied to bounded inputs
\* --------------------------------------------------------------------------
GridRange == (0 - GridRadius)..GridRadius
GridPositions == {Vec2(x, y) : x \in GridRange, y \in GridRange}

PickIdle == pobj = Background /\ pcolor = NoResult /\ ppick = NoResult

PipeIdle ==
    /\ queue = <<>> /\ scene = <<>> /\ units = <<>> /\ failed = ""
    /\ nextSeq = 0 /\ last = [op |-> "none", seq |-> 0]
    /\ finished = {} /\ ended = {} /\ advanced = {} /\ drawCalls = 0

DirIdle ==
    /\ gpos = Vec2(0, 0) /\ gdir = "NorthEast" /\ gstage = "input"
    /\ gnbs = <<>> /\ gback = NoResult /\ gworld = NoResult
    /\ gto = Vec2(0, 0) /\ gany = NoResult /\ gret = NoResult

\* The positions within GridRadius columns and rows of p: p itself, its
\* neighbours under either table, and positions further away.
NearPositions(p) == {Vec2(p.x + dx, p.y + dy) : dx \in GridRange, dy \in GridRange}

InitDir ==
    /\ gpos \in GridPositions
    /\ gdir \in DirSet
    /\ gstage = "input"
    /\ gnbs = <<>>
    /\ gback = NoResult
    /\ gworld = NoResult
    /\ gto \in NearPositions(gpos)
    /\ gany = NoResult
    /\ gret = NoResult
    /\ PickIdle
    /\ PipeIdle

\* get_neighbour_pos(gpos, d) for each of the 6 directions.
StepNeighbours ==
    /\ gstage = "input"
    /\ gnbs' = [i \in 1..6 |-> get_neighbour_pos(gpos, Dirs[i])]
    /\ gstage' = "stepped"
    /\ UNCHANGED <<gpos, gdir, gback, gworld, gto, gany, gret, pickVars, pipeVars>>

Neighbour == gnbs[to_int(gdir) + 1]

\* get_dir_from_to(gpos, get_neighbour_pos(gpos, gdir))
StepDirBack ==
    /\ gstage = "stepped"
    /\ gback = NoResult
    /\ gback' = get_dir_from_to(gpos, Neighbour)
    /\ UNCHANGED <<gpos, gdir, gstage, gnbs, gworld, gto, gany, gret, pickVars, pipeVars>>

\* v2i_to_v2f of gpos and of its neighbour in direction gdir
StepPlace ==
    /\ gstage = "stepped"
    /\ gworld = NoResult
    /\ gworld' = [ok |-> TRUE, from |-> v2i_to_v2f(gpos), to |-> v2i_to_v2f(Neighbour)]
    /\ UNCHANGED <<gpos, gdir, gstage, gnbs, gback, gto, gany, gret, pickVars, pipeVars>>

\* get_dir_from_to(gpos, gto) for a `to` that need not be a neighbour
StepDirAny ==
    /\ gany = NoResult
    /\ gany' = get_dir_from_to(gpos, gto)
    /\ UNCHANGED <<gpos, gdir, gstage, gnbs, gback, gworld, gto, gret, pickVars, pipeVars>>

\* The direction opposite to d: (d + 3) mod 6
Opposite(d) == from_int((to_int(d) + 3) % 6)

\* get_neighbour_pos(get_neighbour_pos(gpos, gdir), opposite of gdir)
StepReturn ==
    /\ gstage = "stepped"
    /\ gret = NoResult
    /\ gret' = [ok |-> TRUE, pos |-> get_neighbour_pos(Neighbour, Opposite(gdir))]
    /\ UNCHANGED <<gpos, gdir, gstage, gnbs, gback, gworld, gto, gany, pickVars, pipeVars>>

NextDir == StepNeighbours \/ StepDirBack \/ StepPlace \/ StepDirAny \/ StepReturn

SpecDir == InitDir /\ [][NextDir]_vars

\* --------------------------------------------------------------------------
\* Claims about the direction functions (checked under SpecDir)
\* --------------------------------------------------------------------------

\* C1: for every MapPos p, negative and odd rows included, and every Dir d,
\* get_dir_from_to(p, get_neighbour_pos(p, d)) returns d without failing.
C1_DirRoundTrip ==
    gback # NoResult => (gback.ok /\ gback.dir = gdir)

\* C1 on the rows the code handles: on every row y >= 0 the round trip
\* returns d, and it fails exactly on the negative odd rows.
C1_RoundTripNonNegativeRows ==
    gback # NoResult =>
        IF gpos.y >= 0 \/ gpos.y % 2 = 0
          THEN gback.ok /\ gback.dir = gdir
          ELSE ~gback.ok /\ gback.err = "index out of bounds"

C1_FailingInput ==
    gpos = Vec2(0, -1) /\ gdir = "NorthEast" /\ gback # NoResult /\ ~gback.ok

\* C8: for every MapPos p, rows of either parity, the 6 positions
\* get_neighbour_pos(p, d) are pairwise distinct and none of them equals p.
C8_NeighboursDistinct ==
    gstage = "stepped" =>
        /\ \A i, j \in 1..6 : i # j => gnbs[i] # gnbs[j]
        /\ \A i \in 1..6 : gnbs[i] # gpos

C8_Witness ==
    gstage = "stepped" /\ gpos.y = 1 /\ gnbs[6] = Vec2(gpos.x - 1, 0)

\* The offset in world space of the hexagon adjacent in direction d:
\* (+-2*inradius, 0) for East/West, (+-inradius, +-1.5*circumradius) for
\* the diagonals, north being the direction of decreasing row.
AdjacentOffset(d) ==
    LET dx == hex_in_radius
        dy == (hex_ex_radius * 3) \div 2
    IN  CASE d = "NorthEast" -> Vec2(dx, 0 - dy)
          [] d = "East"      -> Vec2(2 * dx, 0)
          [] d = "SouthEast" -> Vec2(dx, dy)
          [] d = "SouthWest" -> Vec2(0 - dx, dy)
          [] d = "West"      -> Vec2(0 - 2 * dx, 0)
          [] d = "NorthWest" -> Vec2(0 - dx, 0 - dy)

\* C9: for every MapPos p, negative rows included, and every Dir d,
\* v2i_to_v2f places get_neighbour_pos(p, d) at the hexagon adjacent to p in
\* direction d.
C9_NeighbourIsAdjacentHexagon ==
    gworld # NoResult => SubV(gworld.to, gworld.from) = AdjacentOffset(gdir)

\* C9 on the rows where both parity tests agree: every row that is even or
\* non-negative; on negative odd rows the four diagonal neighbours are
\* misplaced.
C9_AdjacentExceptNegativeOddRows ==
    gworld # NoResult =>
        ((gpos.y >= 0 \/ gpos.y % 2 = 0 \/ gdir \in {"East", "West"})
            <=> SubV(gworld.to, gworld.from) = AdjacentOffset(gdir))

C9_FailingInput ==
    /\ gpos = Vec2(0, -1) /\ gdir = "NorthEast" /\ gworld # NoResult
    /\ SubV(gworld.to, gworld.from) = Vec2(3 * hex_in_radius, 0 - (hex_ex_radius * 3) \div 2)

\* `to` is one of the 6 neighbours of `from` under the table of from's row
\* parity (row mod 2, 0 for even rows and 1 for odd rows of either sign).
IsNeighbourUnderParity(from, to) ==
    \E i \in 0..5 : SubV(to, from) = DIR_TO_POS_DIFF[(from.y % 2) + 1][i + 1]

\* C11: get_dir_from_to(from, to) fails for every pair where `to` is not one
\* of the 6 neighbours of `from` under the parity table of from's row, to =
\* from and positions further away included; it returns no Dir for them.
C11_InvalidAdjacencyFails ==
    (gany # NoResult /\ ~IsNeighbourUnderParity(gpos, gto)) => ~gany.ok

C11_Witness ==
    /\ gany = [ok |-> FALSE, err |-> "impossible positions"]
    /\ gto = gpos
    /\ gpos.y = 1

\* C13: for every MapPos p, negative rows included, and every Dir d, the
\* step to get_neighbour_pos(p, d) followed by the step in the opposite
\* direction (d + 3) mod 6 returns to p.
C13_NeighbourSymmetry ==
    gret # NoResult => gret.pos = gpos

\* A row the parity test of get_neighbour_pos gets wrong: odd and negative.
NegativeOddRow(y) == y < 0 /\ y % 2 = 1

\* C13 as the code has it: the two steps return to p exactly when the
\* direction is East or West or neither p nor the neighbour lies on a
\* negative odd row.
C13_SymmetricExceptNegativeOddRows ==
    gret # NoResult =>
        (gret.pos = gpos <=>
            \/ gdir \in {"East", "West"}
            \/ (~NegativeOddRow(gpos.y) /\ ~NegativeOddRow(Neighbour.y)))

C13_FailingInput ==
    /\ gpos = Vec2(0, 0) /\ gdir = "NorthEast"
    /\ gstage = "stepped" /\ Neighbour = Vec2(1, -1)
    /\ gret # NoResult /\ gret.pos = Vec2(1, 0)

\* --------------------------------------------------------------------------
\* SpecPick: one object under the mouse, meshed and then picked
\* --------------------------------------------------------------------------
ByteRange == 0..ByteMax

InitPick ==
    /\ pobj \in {Background}
                \cup {Tile(x, y) : x \in ByteRange, y \in ByteRange}
                \cup {UnitNode(id) : id \in ByteRange \cup {last_unit_node_id}}
    /\ pcolor = NoResult
    /\ ppick = NoResult
    /\ DirIdle
    /\ PipeIdle

\* TilePicker::new -> get_mesh: the tile under the mouse gets its colour.
BuildMapMesh ==
    /\ pcolor = NoResult
    /\ pobj.kind = "tile"
    /\ pcolor' = TileColor(Vec2(pobj.x, pobj.y))
    /\ UNCHANGED <<pobj, ppick, dirVars, pipeVars>>

\* TilePicker::update_units: the unit node under the mouse gets its colour.
UpdateUnits ==
    /\ pcolor = NoResult
    /\ pobj.kind = "unit"
    /\ pcolor' = UnitColor(pobj.id)
    /\ UNCHANGED <<pobj, ppick, dirVars, pipeVars>>

\* Nothing is meshed where the mouse points: the pixel keeps the clear colour.
ClearOnly ==
    /\ pcolor = NoResult
    /\ pobj.kind = "nothing"
    /\ pcolor' = ClearColor
    /\ UNCHANGED <<pobj, ppick, dirVars, pipeVars>>

\* TilePicker::pick_tile: draw, read the pixel under the mouse, decode it.
PickTile ==
    /\ pcolor # NoResult
    /\ ppick = NoResult
    /\ ppick' = pick_tile(pcolor)
    /\ UNCHANGED <<pobj, pcolor, dirVars, pipeVars>>

NextPick == BuildMapMesh \/ UpdateUnits \/ ClearOnly \/ PickTile

SpecPick == InitPick /\ [][NextPick]_vars

\* C5: for every tile MapPos with x and y in [0,255] the colour written by
\* the tile mesh decodes in pick_tile to PickedMapPos of the same MapPos, and
\* for every unit node id in [0,255] the colour written by update_units
\* decodes to PickedUnitId of the same id.
C5_PickRoundTrip ==
    ppick # NoResult =>
        /\ (pobj.kind = "tile" /\ pobj.x \in ByteRange /\ pobj.y \in ByteRange) =>
               (ppick.ok /\ ppick.kind = "PickedMapPos"
                    /\ ppick.x = pobj.x /\ ppick.y = pobj.y)
        /\ (pobj.kind = "unit" /\ pobj.id \in ByteRange) =>
               (ppick.ok /\ ppick.kind = "PickedUnitId" /\ ppick.id = pobj.id)

C5_Witness ==
    /\ pobj = Tile(ByteMax, 3)
    /\ ppick # NoResult /\ ppick.ok
    /\ ppick.kind = "PickedMapPos" /\ ppick.x = ByteMax /\ ppick.y = 3

\* --------------------------------------------------------------------------
\* Spec: the event pipeline.  Events are enqueued by the game logic; each
\* frame the pipeline asks the event at the head of the queue whether it is
\* finished, advances it with draw() if not, and otherwise commits it with
\* end() and drops it.  A failed assertion, index or unwrap aborts the task.
\* --------------------------------------------------------------------------
UnitIds == {0, 1}
CreatePositions == {Vec2(0, 0), Vec2(2, 2)}
Route == << Vec2(0, 0), Vec2(1, 0), Vec2(1, 1), Vec2(1, 2) >>
\* Move paths: the walks from the start of Route of at most MaxPathLen waypoints
PathLens == {n \in 1..Len(Route) : n <= MaxPathLen}
Paths == {SubSeq(Route, 1, n) : n \in PathLens}

Events ==
    {EventMoveVisualizer(id, path) : id \in UnitIds, path \in Paths}
        \cup {EventCreateUnitVisualizer(id, pos) : id \in UnitIds, pos \in CreatePositions}
        \cup {EventEndTurnVisualizer}

Init == PipeIdle /\ DirIdle /\ PickIdle

NewestIndex(q) == Len(q)

\* The active event is the one at the head of the queue.
ActiveIndex(q) == 1

Active == queue[ActiveIndex(queue)]

Without(q, i) == SubSeq(q, 1, i - 1) \o SubSeq(q, i + 1, Len(q))

\* The game logic decides an action: its visualizer joins the queue.
AddEvent ==
    /\ failed = ""
    /\ Len(queue) < MaxQueue
    /\ nextSeq < MaxEvents
    /\ \E e \in Events :
          queue' = Append(queue, [seq |-> nextSeq, vis |-> e])
    /\ nextSeq' = nextSeq + 1
    /\ UNCHANGED <<scene, units, failed, last, finished, ended, advanced,
                   drawCalls, dirVars, pickVars>>

\* A frame in which the active event is not finished: draw() advances it.
FrameAdvance ==
    /\ failed = ""
    /\ queue # <<>>
    /\ LET a   == Active
           fin == is_finished(a.vis)
       IN  /\ ~(fin.ok /\ fin.val)
           /\ IF ~fin.ok
                THEN /\ failed' = fin.err
                     /\ UNCHANGED <<queue, scene, last, advanced, drawCalls>>
                ELSE LET r == draw(scene, a.vis)
                     IN  /\ failed' = r.err
                         /\ scene' = r.scene
                         /\ queue' = [queue EXCEPT ![ActiveIndex(queue)].vis = r.ev]
                         /\ last' = [op |-> "draw", seq |-> a.seq]
                         /\ advanced' = {a.seq}
                         /\ drawCalls' = IF r.ok THEN drawCalls + 1 ELSE drawCalls
    /\ UNCHANGED <<units, nextSeq, finished, ended, dirVars, pickVars>>

\* A frame in which the active event is finished: end() commits it and the
\* event leaves the queue.
FrameRetire ==
    /\ failed = ""
    /\ queue # <<>>
    /\ LET a   == Active
           fin == is_finished(a.vis)
           r   == end(scene, units, a.vis)
       IN  /\ fin.ok /\ fin.val
           /\ finished' = finished \cup {a.seq}
           /\ ended' = ended \cup {a.seq}
           /\ last' = [op |-> "end", seq |-> a.seq]
           /\ failed' = r.err
           /\ scene' = r.scene
           /\ units' = r.units
           /\ queue' = IF r.ok THEN Without(queue, ActiveIndex(queue)) ELSE queue
    /\ advanced' = {}
    /\ drawCalls' = 0
    /\ UNCHANGED <<nextSeq, dirVars, pickVars>>

Next == AddEvent \/ FrameAdvance \/ FrameRetire

Spec == Init /\ [][Next]_vars

\* --------------------------------------------------------------------------
\* Claims about the pipeline and the visualizers (checked under Spec)
\* --------------------------------------------------------------------------
\* The step in which end() is invoked on the active event, of the given kind
EndStep(kind) ==
    /\ failed = ""
    /\ queue # <<>>
    /\ Active.vis.kind = kind
    /\ Active.seq \notin ended
    /\ Active.seq \in ended'

\* C2: for events E1, E2 enqueued in that order, neither draw nor end of E2
\* is invoked before E1 has reached is_finished() = true and E1's end has
\* been invoked; at most one event is advanced per frame.
C2_QueueOrdering ==
    /\ last.op \in {"draw", "end"} =>
          \A m \in 0..(last.seq - 1) : m \in finished /\ m \in ended
    /\ Cardinality(advanced) <= 1

C2_Witness ==
    /\ last = [op |-> "draw", seq |-> 1]
    /\ 0 \in finished /\ 0 \in ended
    /\ failed = ""

\* C3: after end of a Move on a unit that exists in the game state, that
\* unit's MapPos is the last waypoint of the path, for every path length, and
\* no other unit's MapPos changes.
C3_MoveCommitExact ==
    [][(EndStep("Move") /\ FindUnit(units, Active.vis.id) # 0) =>
          LET ev == Active.vis
              u  == FindUnit(units, ev.id)
          IN  /\ failed' = ""
              /\ Len(units') = Len(units)
              /\ units'[u] = Unit(ev.id, ev.path[Len(ev.path)])
              /\ \A i \in 1..Len(units) : i # u => units'[i] = units[i]]_vars

\* C3 where end() returns: for every path of 2 or more waypoints the unit's
\* MapPos becomes the last waypoint and no other unit record changes; with a
\* single waypoint end() aborts on path[1] and writes nothing.
C3_MoveCommitExactFromTwoWaypoints ==
    [][(EndStep("Move") /\ FindUnit(units, Active.vis.id) # 0) =>
          LET ev == Active.vis
              u  == FindUnit(units, ev.id)
          IN  IF Len(ev.path) >= 2
                THEN /\ failed' = ""
                     /\ Len(units') = Len(units)
                     /\ units'[u] = Unit(ev.id, ev.path[Len(ev.path)])
                     /\ \A i \in 1..Len(units) : i # u => units'[i] = units[i]
                ELSE failed' = "index out of bounds" /\ units' = units]_vars

\* C4: end() of a finished Move sets the unit's scene node to exactly
\* tileToWorld(final waypoint), which is tileToWorld of the unit's MapPos
\* after the commit, for paths of 2, 3 or more waypoints.
C4_MoveCommitConsistent ==
    [][(EndStep("Move") /\ is_finished(Active.vis) = Ok(TRUE) /\ failed' = "") =>
          LET ev == Active.vis
              u  == FindUnit(units', ev.id)
          IN  /\ scene'[ev.id] = map_pos_to_world_pos(ev.path[Len(ev.path)])
              /\ u # 0
              /\ scene'[ev.id] = map_pos_to_world_pos(units'[u].pos)]_vars

\* C4 as the code has it: the committed scene position is
\* tileToWorld(path[0]) + (n - 1) * (tileToWorld(path[1]) - tileToWorld(path[0])),
\* which is the final waypoint's position only for 2 waypoints.
C4_MoveCommitExtrapolatesFirstSegment ==
    [][(EndStep("Move") /\ failed' = "") =>
          LET ev == Active.vis
              w0 == map_pos_to_world_pos(ev.path[1])
              w1 == map_pos_to_world_pos(ev.path[2])
          IN  /\ Len(ev.path) >= 2
              /\ scene'[ev.id] =
                    Vec3Add(w0, Vec3MulS(Vec3Sub(w1, w0), Len(ev.path) - 1))
              /\ (Len(ev.path) = 2 =>
                    scene'[ev.id] = map_pos_to_world_pos(ev.path[Len(ev.path)]))]_vars

\* C6: when no unit with the id exists, end of CreateUnit(id, pos) appends
\* exactly the record {id, pos} to the unit list and inserts exactly one
\* scene node for id at tileToWorld(pos); every other unit record and scene
\* node is unchanged.
C6_CreateUnitCommit ==
    [][(EndStep("CreateUnit") /\ FindUnit(units, Active.vis.id) = 0) =>
          LET ev == Active.vis
          IN  /\ failed' = ""
              /\ units' = Append(units, Unit(ev.id, ev.pos))
              /\ ev.id \notin DOMAIN scene
              /\ DOMAIN scene' = (DOMAIN scene) \cup {ev.id}
              /\ scene'[ev.id] = map_pos_to_world_pos(ev.pos)
              /\ \A i \in DOMAIN scene : scene'[i] = scene[i]]_vars

C6_Witness ==
    /\ failed = ""
    /\ last = [op |-> "end", seq |-> 1]
    /\ units = << Unit(1, Vec2(0, 0)), Unit(0, Vec2(2, 2)) >>
    /\ DOMAIN scene = {0, 1}
    /\ scene[0] = map_pos_to_world_pos(Vec2(2, 2))

\* C7: for a Move with n waypoints is_finished() is true exactly when the
\* frame counter equals (n - 1) * 40 and false for every smaller value; the
\* counter is the number of draw calls made since construction, so a
\* 3-waypoint Move is finished after exactly 80 draw calls and not before.
C7_MoveCompletion ==
    (failed = "" /\ queue # <<>> /\ Active.vis.kind = "Move") =>
        LET ev == Active.vis
            n  == Len(ev.path)
        IN  /\ ev.current_move_index = drawCalls
            /\ ev.current_move_index <= (n - 1) * 40
            /\ is_finished(ev) = Ok(ev.current_move_index = (n - 1) * 40)
            /\ (n = 3 => (is_finished(ev) = Ok(TRUE) <=> drawCalls = 80))

C7_Witness ==
    /\ failed = "" /\ queue # <<>>
    /\ Active.vis.kind = "Move"
    /\ Active.vis.path = << Vec2(0, 0), Vec2(1, 0), Vec2(1, 1) >>
    /\ drawCalls = 80
    /\ is_finished(Active.vis) = Ok(TRUE)

\* C10: end of CreateUnit(id, pos) fails with an assertion error whenever
\* the unit list already holds a unit with that id, and then no unit record
\* is appended.
C10_DuplicateUnitId ==
    [][(EndStep("CreateUnit") /\ FindUnit(units, Active.vis.id) # 0) =>
          (failed' = "DuplicateUnitId" /\ units' = units)]_vars

C10_Witness ==
    /\ failed = "DuplicateUnitId"
    /\ queue # <<>> /\ Active.vis.kind = "CreateUnit"
    /\ FindUnit(units, Active.vis.id) # 0
    /\ Len(units) = 1

\* The step in which draw() is invoked on the active Move and returns
DrawStep ==
    /\ failed = ""
    /\ queue # <<>>
    /\ Active.vis.kind = "Move"
    /\ drawCalls' = drawCalls + 1

\* C12: for a Move with n waypoints and frame counter k, 0 <= k < (n-1)*40,
\* draw sets the unit's scene position to the linear interpolation between
\* tileToWorld(waypoint[k div 40]) and tileToWorld(waypoint[k div 40 + 1]) at
\* fraction (k mod 40)/40 and then increments the counter by exactly 1, for
\* every segment of the path.
C12_DrawInterpolatesCurrentSegment ==
    [][DrawStep =>
          LET ev  == Active.vis
              k   == ev.current_move_index
              seg == k \div 40
              a   == map_pos_to_world_pos(ev.path[seg + 1])
              b   == map_pos_to_world_pos(ev.path[seg + 2])
          IN  /\ 0 <= k /\ k < (Len(ev.path) - 1) * 40
              /\ scene'[ev.id] = Vec3Add(a, Vec3MulS(Vec3DivS(Vec3Sub(b, a), 40), k % 40))
              /\ queue'[1].vis.current_move_index = k + 1]_vars

\* C12 as the code has it: draw always interpolates along the first segment,
\* at k/40 of it, which is the claimed position while k <= 40 and lies
\* beyond the first segment afterwards; the counter grows by exactly 1.
C12_DrawExtrapolatesFirstSegment ==
    [][DrawStep =>
          LET ev == Active.vis
              k  == ev.current_move_index
              w0 == map_pos_to_world_pos(ev.path[1])
              w1 == map_pos_to_world_pos(ev.path[2])
          IN  /\ 0 <= k /\ k < (Len(ev.path) - 1) * 40
              /\ scene'[ev.id] = Vec3Add(w0, Vec3MulS(Vec3DivS(Vec3Sub(w1, w0), 40), k))
              /\ queue'[1].vis.current_move_index = k + 1]_vars

C12_FailingInput ==
    /\ failed = "" /\ queue # <<>>
    /\ Active.vis.kind = "Move"
    /\ Active.vis.path = << Vec2(0, 0), Vec2(1, 0), Vec2(1, 1) >>
    /\ Active.vis.current_move_index = 42
    /\ scene[Active.vis.id] = [x |-> 40 + 2 * 41, y |-> 0, z |-> 0]

UnitIdsOf(us) == {us[i].id : i \in 1..Len(us)}

\* Unit ids are pairwise distinct and there is exactly one scene node per unit
UnitsMatchNodes ==
    /\ \A i, j \in 1..Len(units) : i # j => units[i].id # units[j].id
    /\ UnitIdsOf(units) = DOMAIN scene

\* C14: from an empty unit list and an empty scene, after any sequence of
\* CreateUnit, Move and EndTurn events each committed once in queue order (a
\* failed assertion aborting the run), unit ids are pairwise distinct and
\* the set of unit ids equals the set of scene node ids; a Move or EndTurn
\* commit adds or removes neither a unit record nor a scene node.
C14_UnitNodeInvariant ==
    /\ []UnitsMatchNodes
    /\ [][(EndStep("Move") \/ EndStep("EndTurn")) =>
            /\ Len(units') = Len(units)
            /\ \A i \in 1..Len(units) : units'[i].id = units[i].id
            /\ DOMAIN scene' = DOMAIN scene]_vars

C14_Witness ==
    /\ failed = ""
    /\ ended = {0, 1, 2}
    /\ last = [op |-> "end", seq |-> 2]
    /\ units = << Unit(0, Vec2(0, 0)), Unit(1, Vec2(1, 0)) >>
    /\ DOMAIN scene = {0, 1}

\* The active event is a Move for a unit that exists
MoveOfExistingUnit ==
    /\ failed = ""
    /\ queue # <<>>
    /\ Active.vis.kind = "Move"
    /\ FindUnit(units, Active.vis.id) # 0

\* C15: a Move constructed with a non-empty path (1, 2 or more waypoints)
\* for an existing unit and driven by the pipeline protocol never fails: the
\* assertion of is_finished holds and every waypoint access of draw and end
\* is within the path.
C15_MoveNeverFails ==
    [][MoveOfExistingUnit => failed' = ""]_vars

\* C15 as the code has it: no step of a Move of 2 or more waypoints fails,
\* and the assertion of is_finished always holds; a Move of one waypoint is
\* finished at once and its end() aborts reading path[1].
C15_MoveFailsOnlyOnSingleWaypoint ==
    [][MoveOfExistingUnit =>
          /\ is_finished(Active.vis).ok
          /\ IF Len(Active.vis.path) >= 2 \/ nextSeq' # nextSeq
               THEN failed' = ""
               ELSE /\ failed' = "index out of bounds"
                    /\ Active.seq \in ended']_vars

C15_FailingInput ==
    /\ failed = "index out of bounds"
    /\ queue # <<>>
    /\ Active.vis.kind = "Move"
    /\ Active.vis.path = << Vec2(0, 0) >>
    /\ FindUnit(units, Active.vis.id) # 0
    /\ last.op = "end"

====
